---- MODULE Spec2Model ----
(***************************************************************************)
(* The gradient-accumulation rewrite of tensorflow-alpa:                   *)
(*   GradAccRewrite::Run                 (spmd/grad_acc_rewrite.cc)        *)
(*   GradAccCommDelay::RunOnModuleGroup  (the module-group variant)        *)
(* over a small model of the HLO instruction graph.  A graph is a record   *)
(*   ins : instruction id -> instruction                                   *)
(*   usr : instruction id -> set of the ids of its users                   *)
(*   nid : the id the next created instruction gets                        *)
(* and holds the instructions of both modules of the group; the field comp *)
(* of an instruction names the entry computation that owns it: "bw" the    *)
(* backward (producer) module, "ag" the apply-grad (consumer) module.      *)
(* Operand positions and the index lists are 0-based as in the code.       *)
(***************************************************************************)
EXTENDS Integers, Sequences, FiniteSets, TLC

\* Longest index list handed to a run.
MaxLen == 2

\* The largest number of instructions of a graph the helper functions are
\* called on by themselves.
MaxNodes == 3

\* The longest operand list, and the largest tuple, MaybeReshapeConvertTuple
\* is called on by itself.
MaxArity == 2

\* ----------------------------------------------------------------------
\* Shapes
\* ----------------------------------------------------------------------
Types == {"f32", "bf16"}
D1 == <<2>>
D2 == <<1, 2>>

Shape(d, t) == [dims |-> d, ty |-> t]

SameElementType(s1, s2) == s1.ty = s2.ty

Compatible(s1, s2) == s1.dims = s2.dims /\ s1.ty = s2.ty

\* Both element types of the model are floating point.
CompatibleIgnoringFpPrecision(s1, s2) == s1.dims = s2.dims

ChangeElementType(s, t) == [s EXCEPT !.ty = t]

\* ----------------------------------------------------------------------
\* Instructions and the graph
\* ----------------------------------------------------------------------
NoChan == 0 - 1

kSkippableAllReduce == "grad_acc_skippable_all_reduce"
kDelayedAllReduce == "grad_acc_delayed_all_reduce"

Ins(op, s, opnds, comp) ==
  [op |-> op, dims |-> s.dims, ty |-> s.ty, opnds |-> opnds, tag |-> "",
   chan |-> NoChan, rg |-> 0, constrain_layout |-> FALSE,
   use_global_device_ids |-> FALSE, comp |-> comp]

EmptyGraph == [ins |-> <<>>, usr |-> <<>>, nid |-> 1]

Ids(G) == DOMAIN G.ins

ShapeOf(G, n) == Shape(G.ins[n].dims, G.ins[n].ty)

Range(s) == {s[k] : k \in DOMAIN s}

\* With(e, LAMBDA x : body) is body with x standing for the value of e: a
\* local name whose value is computed once, before body is.
With(e, Body(_)) == CHOOSE y \in {Body(x) : x \in {e}} : TRUE

\* The users of n as its operand references give them.
ComputedUsers(G, n) == {m \in Ids(G) : n \in Range(G.ins[m].opnds)}

\* HloComputation::AddInstruction of a freshly created instruction: the new
\* instruction gets id G.nid and becomes a user of each of its operands.
AddInstruction(G, i) ==
  [ins |-> [n \in Ids(G) \cup {G.nid} |-> IF n = G.nid THEN i ELSE G.ins[n]],
   usr |-> [n \in Ids(G) \cup {G.nid} |->
              IF n = G.nid THEN {}
              ELSE IF n \in Range(i.opnds) THEN G.usr[n] \cup {G.nid}
              ELSE G.usr[n]],
   nid |-> G.nid + 1]

\* HloInstruction::ReplaceOperandWith(k, new) on instruction u: refused
\* (an error status, which the callers drop) when the shapes differ by more
\* than floating-point precision.
ReplaceOperandWith(G, u, k, new) ==
  LET old == G.ins[u].opnds[k + 1]
      opn == [G.ins[u].opnds EXCEPT ![k + 1] = new]
  IN IF ~CompatibleIgnoringFpPrecision(ShapeOf(G, old), ShapeOf(G, new))
       THEN G
     ELSE IF old = new THEN G
     ELSE [G EXCEPT !.ins[u].opnds = opn,
                    !.usr = [n \in Ids(G) |->
                               IF n = new THEN G.usr[n] \cup {u}
                               ELSE IF n = old /\ old \notin Range(opn)
                                      THEN G.usr[n] \ {u}
                               ELSE G.usr[n]]]

\* HloInstruction::ReplaceAllUsesWith(new) on instruction old.
ReplaceAllUsesWith(G, old, new) ==
  LET us == G.usr[old] \ {new}
      keep == G.usr[old] \cap {new}
  IN IF ~CompatibleIgnoringFpPrecision(ShapeOf(G, old), ShapeOf(G, new))
       THEN G
     ELSE
     [G EXCEPT
        !.ins = [n \in Ids(G) |->
                   IF n \in us
                     THEN [G.ins[n] EXCEPT !.opnds =
                             [k \in DOMAIN G.ins[n].opnds |->
                                IF G.ins[n].opnds[k] = old THEN new
                                ELSE G.ins[n].opnds[k]]]
                   ELSE G.ins[n]],
        !.usr = [n \in Ids(G) |->
                   IF n = old THEN keep
                   ELSE IF n = new THEN G.usr[n] \cup us
                   ELSE G.usr[n]]]

\* HloComputation::RemoveInstruction: refused (an error status, which the
\* callers drop) while the instruction has users or is the root.
RemoveInstruction(G, root, n) ==
  IF n \notin Ids(G) \/ G.usr[n] # {} \/ n = root \/ G.ins[n].op = "Parameter"
    THEN G
  ELSE [ins |-> [m \in Ids(G) \ {n} |-> G.ins[m]],
        usr |-> [m \in Ids(G) \ {n} |-> G.usr[m] \ {n}],
        nid |-> G.nid]

\* hlo_query::NextChannelId of one module: one above the largest channel id
\* of its instructions, and 1 when none has a channel id.
NextChannelId(G, comp) ==
  LET cs == {G.ins[n].chan : n \in {m \in Ids(G) : G.ins[m].comp = comp}}
            \ {NoChan}
  IN IF cs = {} THEN 1
     ELSE (CHOOSE c \in cs : \A d \in cs : d <= c) + 1

\* ----------------------------------------------------------------------
\* The helpers of grad_acc_rewrite.cc
\* ----------------------------------------------------------------------
nullptr == 0

PassThrough == {"Convert", "Reshape", "Copy", "Bitcast", "Transpose"}

RECURSIVE GetAllReduce(_, _)
\* Mutant: a Multiply takes its left side whenever that side resolves.
GetAllReduce_LeftFirst(G, src) ==
  LET i == G.ins[src]
  IN IF i.op = "AllReduce" THEN src
     ELSE IF i.op \in PassThrough THEN GetAllReduce(G, i.opnds[1])
     ELSE IF i.op = "Multiply"
       THEN LET lhs == GetAllReduce(G, i.opnds[1])
                rhs == GetAllReduce(G, i.opnds[2])
            IN IF lhs # nullptr THEN lhs ELSE rhs
     ELSE nullptr

GetAllReduce(G, src) ==
  LET i == G.ins[src]
  IN IF i.op = "AllReduce" THEN src
     ELSE IF i.op \in PassThrough THEN GetAllReduce(G, i.opnds[1])
     ELSE IF i.op = "Multiply"
       THEN LET lhs == GetAllReduce(G, i.opnds[1])
                rhs == GetAllReduce(G, i.opnds[2])
            IN IF lhs # nullptr /\ rhs = nullptr THEN lhs
               ELSE IF lhs = nullptr /\ rhs # nullptr THEN rhs
               ELSE nullptr
     ELSE nullptr

\* The helpers that may create instructions return the graph and the
\* instruction: [g |-> graph, r |-> id].
MaybeConvert(G, src, dst) ==
  IF SameElementType(ShapeOf(G, src), dst) THEN [g |-> G, r |-> src]
  ELSE [g |-> AddInstruction(G,
                 Ins("Convert", ChangeElementType(ShapeOf(G, src), dst.ty),
                     <<src>>, G.ins[src].comp)),
        r |-> G.nid]

\* Mutant: the element type is bridged, the dimensions are not.
MaybeReshapeConvert_ConvertOnly(G, src, dst) == MaybeConvert(G, src, dst)

MaybeReshapeConvert(G, src, dst) ==
  IF Compatible(ShapeOf(G, src), dst) THEN [g |-> G, r |-> src]
  ELSE With(MaybeConvert(G, src, dst), LAMBDA c :
         [g |-> AddInstruction(c.g,
                   Ins("Reshape", dst, <<c.r>>, G.ins[src].comp)),
          r |-> c.g.nid])

\* A tuple shape is [ty |-> "tuple", dims |-> <<>>, elems |-> <<shapes>>].
IsTuple(s) == s.ty = "tuple"

TupleShape(elems) == [ty |-> "tuple", dims |-> <<>>, elems |-> elems]

\* The loop of MaybeReshapeConvertTuple over src[k..], ret the list so far.
RECURSIVE BridgeEach(_, _, _, _, _)
BridgeEach(G, src, elems, k, ret) ==
  IF k > Len(src) THEN [g |-> G, r |-> ret, ok |-> TRUE]
  ELSE With(MaybeReshapeConvert(G, src[k], elems[k]), LAMBDA b :
         BridgeEach(b.g, src, elems, k + 1, Append(ret, b.r)))

\* Mutant: no CHECK; the operands that have a subshape are bridged.
MaybeReshapeConvertTuple_NoCheck(G, src, dst) ==
  IF IsTuple(dst)
    THEN IF Len(dst.elems) < Len(src)
           THEN BridgeEach(G, SubSeq(src, 1, Len(dst.elems)), dst.elems, 1,
                           <<>>)
           ELSE BridgeEach(G, src, dst.elems, 1, <<>>)
  ELSE IF src = <<>> THEN [g |-> G, r |-> <<>>, ok |-> TRUE]
  ELSE With(MaybeReshapeConvert(G, src[1], dst), LAMBDA b :
         [g |-> b.g, r |-> <<b.r>>, ok |-> TRUE])

\* ok is FALSE when one of the CHECKs fails (the process aborts).
MaybeReshapeConvertTuple(G, src, dst) ==
  IF IsTuple(dst)
    THEN IF Len(dst.elems) # Len(src) THEN [g |-> G, r |-> <<>>, ok |-> FALSE]
         ELSE BridgeEach(G, src, dst.elems, 1, <<>>)
  ELSE IF Len(src) # 1 THEN [g |-> G, r |-> <<>>, ok |-> FALSE]
  ELSE With(MaybeReshapeConvert(G, src[1], dst), LAMBDA b :
         [g |-> b.g, r |-> <<b.r>>, ok |-> TRUE])

\* HloInstruction::CreateAllReduce added to computation comp, with the
\* replica groups rg and the channel id chan given.
CreateAllReduce(G, s, opnds, rg, cl, chan, gid, comp) ==
  AddInstruction(G, [Ins("AllReduce", s, opnds, comp)
                       EXCEPT !.rg = rg, !.constrain_layout = cl,
                              !.chan = chan, !.use_global_device_ids = gid])

\* set_metadata_op_name / set_metadata
SetTag(G, n, t) == [G EXCEPT !.ins[n].tag = t]

\* std::to_string of a non-negative integer: its decimal digits.
Digit(n) == <<"0", "1", "2", "3", "4", "5", "6", "7", "8", "9">>[n + 1]

RECURSIVE to_string(_)
to_string(n) ==
  IF n < 10 THEN <<Digit(n)>> ELSE to_string(n \div 10) \o <<Digit(n % 10)>>

\* The loop of GetGradSyncChannelIds over the instructions of the entry
\* computation comp, in the order they were added, from id n on.
\* channel_id().value() of a collective without channel id does not return:
\* ok is FALSE.
RECURSIVE GradSyncFrom(_, _, _, _)
GradSyncFrom(G, comp, n, ret) ==
  IF n >= G.nid THEN [ok |-> TRUE, str |-> ret]
  ELSE IF n \in Ids(G) /\ G.ins[n].comp = comp /\ G.ins[n].op = "AllReduce"
          /\ G.ins[n].tag = kSkippableAllReduce
    THEN IF G.ins[n].chan = NoChan THEN [ok |-> FALSE, str |-> ret]
         ELSE GradSyncFrom(G, comp, n + 1,
                           ret \o to_string(G.ins[n].chan) \o <<".">>)
  ELSE GradSyncFrom(G, comp, n + 1, ret)

GetGradSyncChannelIds(G, comp) == GradSyncFrom(G, comp, 1, <<".">>)

\* ----------------------------------------------------------------------
\* The graphs a run is given
\* ----------------------------------------------------------------------
\* The backward module: output 0 is Add(l, chain(AllReduce(x))), where chain
\* is the given sequence of instructions over the collective; output 1 is
\* chosen by kindB:
\*   "param"      the parameter l (not an Add)
\*   "own"        a second Add over a collective of its own
\*   "shareChain" a second Add over the same chain as the first
\*   "shareAdd"   the first Add again
\*   "arUser"     the collective itself (a second user of it)
\*   "chainUser"  the top of the chain (a second user of a pass-through)
\*   "mulChain"   a second Add over Multiply(AllReduce(x2), chain): a
\*                collective of its own times the chain of the first
Chains ==
  {"direct", "Convert", "Reshape", "Copy", "ConvertReshape", "MulL", "MulR",
   "MulBoth", "Negate", "NoAR"}

\* Element types of the collective and of the Add under each chain.
ChainTypes(chain) ==
  IF chain = "Convert" THEN {<<"bf16", "f32">>, <<"f32", "f32">>}
  ELSE IF chain = "ConvertReshape" THEN {<<"bf16", "f32">>}
  ELSE {<<"f32", "f32">>}

ChainFamily ==
  {[chain |-> c, tAR |-> t[1], tAdd |-> t[2], chanA |-> a, kindB |-> "param",
    chanB |-> NoChan] :
     c \in Chains, t \in Types \X Types, a \in {NoChan, 1}}

ShareFamily ==
  {[chain |-> c, tAR |-> t[1], tAdd |-> t[2], chanA |-> ab[1], kindB |-> "own",
    chanB |-> ab[2]] :
     c \in {"direct", "Convert"}, t \in {<<"bf16", "f32">>, <<"f32", "f32">>},
     ab \in {<<1, 2>>, <<2, 1>>, <<NoChan, 1>>, <<1, NoChan>>}}
  \cup
  {[chain |-> c, tAR |-> t[1], tAdd |-> t[2], chanA |-> 1, kindB |-> k,
    chanB |-> NoChan] :
     c \in {"direct", "Convert"}, t \in {<<"bf16", "f32">>, <<"f32", "f32">>},
     k \in {"shareChain", "shareAdd", "arUser", "chainUser", "mulChain"}}
  \cup
  {[chain |-> "MulBoth", tAR |-> "f32", tAdd |-> "f32", chanA |-> 1,
    kindB |-> "own", chanB |-> 2]}

ValidProducer(p) ==
  /\ <<p.tAR, p.tAdd>> \in ChainTypes(p.chain)
  /\ p.chain = "Convert" /\ p.kindB # "param" => p.tAR # p.tAdd
  /\ p.chain = "direct" => p.kindB # "chainUser"

Producers == {p \in ChainFamily \cup ShareFamily : ValidProducer(p)}

\* The apply-grad module: parameter 0 of element type tP with the users
\* Negate(p0) and Add(p0, p0), parameter 1 with the users Negate(p1) and a
\* collective of channel id chanE.
Consumers == {[tP |-> t, chanE |-> c] : t \in Types, c \in {NoChan, 3}}

\* Adding instruction i to G: the graph and the id given.
Mk(G, i) == [g |-> AddInstruction(G, i), r |-> G.nid]

\* The chain over the collective ar (x when there is none).
BuildChain(p, ar, x, sAdd) ==
  CASE p.chain \in {"direct", "NoAR"} -> ar
    [] p.chain = "Convert" -> Mk(ar.g, Ins("Convert", sAdd, <<ar.r>>, "bw"))
    [] p.chain = "Reshape" -> Mk(ar.g, Ins("Reshape", sAdd, <<ar.r>>, "bw"))
    [] p.chain = "Copy" -> Mk(ar.g, Ins("Copy", sAdd, <<ar.r>>, "bw"))
    [] p.chain = "ConvertReshape" ->
         With(Mk(ar.g, Ins("Convert", Shape(D2, p.tAdd), <<ar.r>>, "bw")),
              LAMBDA cv : Mk(cv.g, Ins("Reshape", sAdd, <<cv.r>>, "bw")))
    [] p.chain = "MulL" ->
         Mk(ar.g, Ins("Multiply", sAdd, <<ar.r, x.r>>, "bw"))
    [] p.chain = "MulR" ->
         Mk(ar.g, Ins("Multiply", sAdd, <<x.r, ar.r>>, "bw"))
    [] p.chain = "MulBoth" ->
         Mk(ar.g, Ins("Multiply", sAdd, <<ar.r, ar.r>>, "bw"))
    [] p.chain = "Negate" -> Mk(ar.g, Ins("Negate", sAdd, <<ar.r>>, "bw"))

\* Output 1.
BuildSecond(p, l, ar, c, add, sAdd) ==
  CASE p.kindB = "param" -> [g |-> add.g, r |-> l.r]
    [] p.kindB = "own" ->
         With(Mk(add.g, Ins("Parameter", sAdd, <<>>, "bw")), LAMBDA x2 :
         With(Mk(x2.g, [Ins("AllReduce", sAdd, <<x2.r>>, "bw")
                          EXCEPT !.rg = 2, !.chan = p.chanB,
                                 !.use_global_device_ids = TRUE]),
              LAMBDA ar2 :
           Mk(ar2.g, Ins("Add", sAdd, <<l.r, ar2.r>>, "bw"))))
    [] p.kindB = "shareChain" ->
         Mk(add.g, Ins("Add", sAdd, <<l.r, c.r>>, "bw"))
    [] p.kindB = "shareAdd" -> [g |-> add.g, r |-> add.r]
    [] p.kindB = "arUser" -> [g |-> add.g, r |-> ar.r]
    [] p.kindB = "chainUser" -> [g |-> add.g, r |-> c.r]
    [] p.kindB = "mulChain" ->
         With(Mk(add.g, Ins("Parameter", sAdd, <<>>, "bw")), LAMBDA x2 :
         With(Mk(x2.g, [Ins("AllReduce", sAdd, <<x2.r>>, "bw")
                          EXCEPT !.rg = 2, !.chan = p.chanB,
                                 !.use_global_device_ids = TRUE]),
              LAMBDA ar2 :
         With(Mk(ar2.g, Ins("Multiply", sAdd, <<ar2.r, c.r>>, "bw")),
              LAMBDA mul :
           Mk(mul.g, Ins("Add", sAdd, <<l.r, mul.r>>, "bw")))))

\* The graph with the backward module added and its root: [g, r].
BuildProducer(G, p) ==
  With(Shape(D1, p.tAdd), LAMBDA sAdd :
  With(Shape(IF p.chain \in {"Reshape", "ConvertReshape"} THEN D2 ELSE D1,
             p.tAR), LAMBDA sAR :
  With(Mk(G, Ins("Parameter", sAdd, <<>>, "bw")), LAMBDA l :
  With(Mk(l.g, Ins("Parameter", sAR, <<>>, "bw")), LAMBDA x :
  With(IF p.chain = "NoAR" THEN x
       ELSE Mk(x.g, [Ins("AllReduce", sAR, <<x.r>>, "bw")
                       EXCEPT !.rg = 1, !.chan = p.chanA,
                              !.constrain_layout = TRUE]), LAMBDA ar :
  With(BuildChain(p, ar, x, sAdd), LAMBDA c :
  With(Mk(c.g, Ins("Add", sAdd, <<l.r, c.r>>, "bw")), LAMBDA add :
  With(BuildSecond(p, l, ar, c, add, sAdd), LAMBDA b :
    Mk(b.g, Ins("Tuple", Shape(<<>>, "tuple"), <<add.r, b.r>>, "bw"))))))))))

\* The graph with the apply-grad module added, its root and its parameters.
BuildConsumer(G, q) ==
  With(Mk(G, Ins("Parameter", Shape(D1, q.tP), <<>>, "ag")), LAMBDA p0 :
  With(Mk(p0.g, Ins("Parameter", Shape(D1, "f32"), <<>>, "ag")), LAMBDA p1 :
  With(Mk(p1.g, Ins("Negate", Shape(D1, q.tP), <<p0.r>>, "ag")), LAMBDA n0 :
  With(Mk(n0.g, Ins("Add", Shape(D1, q.tP), <<p0.r, p0.r>>, "ag")), LAMBDA a0 :
  With(Mk(a0.g, Ins("Negate", Shape(D1, "f32"), <<p1.r>>, "ag")), LAMBDA n1 :
  With(Mk(n1.g, [Ins("AllReduce", Shape(D1, "f32"), <<p1.r>>, "ag")
                   EXCEPT !.rg = 3, !.chan = q.chanE]), LAMBDA e :
  With(Mk(e.g, Ins("Tuple", Shape(<<>>, "tuple"),
                   <<p0.r, n0.r, a0.r, n1.r, e.r>>, "ag")), LAMBDA t :
    [g |-> t.g, root |-> t.r, params |-> <<p0.r, p1.r>>])))))))

\* ----------------------------------------------------------------------
\* The steps of GradAccRewrite::Run on one matched index
\* ----------------------------------------------------------------------
\* The loop that detaches the collective ar from its user u, from operand
\* position i on.
RECURSIVE Run_DetachFrom(_, _, _, _)
Run_DetachFrom(G, ar, u, i) ==
  IF i >= Len(G.ins[u].opnds) THEN G
  ELSE IF G.ins[u].opnds[i + 1] = ar
    THEN With(MaybeReshapeConvert(G, G.ins[ar].opnds[1],
                                  ShapeOf(G, G.ins[u].opnds[i + 1])),
              LAMBDA b :
                Run_DetachFrom(ReplaceOperandWith(b.g, u, i, b.r), ar, u, i + 1))
  ELSE Run_DetachFrom(G, ar, u, i + 1)

Run_Detach(G, ar, u) == Run_DetachFrom(G, ar, u, 0)

\* Mutant: the Add handed to the collective without the bridge.
Run_InsertAfterAdd_Unbridged(G, add, ar) == ReplaceOperandWith(G, ar, 0, add)

\* allreduce_ins->ReplaceOperandWith(0, bridge(add_ins))
Run_InsertAfterAdd(G, add, ar) ==
  With(MaybeReshapeConvert(G, add, ShapeOf(G, ar)), LAMBDA b :
    ReplaceOperandWith(b.g, ar, 0, b.r))

\* Mutant: the collective put at the output position without the bridge.
Run_ReplaceOutput_Unbridged(G, root, i, add, ar) ==
  SetTag(ReplaceOperandWith(G, root, i, ar), ar, kSkippableAllReduce)

\* output_tuple->ReplaceOperandWith(i, bridge(allreduce_ins)) and the tag
Run_ReplaceOutput(G, root, i, add, ar) ==
  With(MaybeReshapeConvert(G, ar, ShapeOf(G, add)), LAMBDA b :
    SetTag(ReplaceOperandWith(b.g, root, i, b.r), ar, kSkippableAllReduce))

Run_TypeMismatch(G, add, ar) ==
  ~SameElementType(ShapeOf(G, ar), ShapeOf(G, add))

\* Mutant: the users of the old collective are not redirected.
Run_FixType_NoRedirect(G, add, old) ==
  With(ShapeOf(G, add), LAMBDA new_shape :
  With(MaybeReshapeConvertTuple(G, G.ins[old].opnds, new_shape), LAMBDA t :
    IF ~t.ok THEN [g |-> G, r |-> nullptr, ok |-> FALSE]
    ELSE
  With(CreateAllReduce(t.g, new_shape, t.r, G.ins[old].rg,
                       G.ins[old].constrain_layout, G.ins[old].chan,
                       G.ins[old].use_global_device_ids, "bw"), LAMBDA G1 :
  With(SetTag(G1, t.g.nid, G.ins[old].tag), LAMBDA G2 :
    [g |-> G2, r |-> t.g.nid, ok |-> TRUE]))))

\* Mutant: the replacement created with the default policies, not the old
\* collective's.
Run_FixType_DefaultPolicies(G, add, old) ==
  With(ShapeOf(G, add), LAMBDA new_shape :
  With(MaybeReshapeConvertTuple(G, G.ins[old].opnds, new_shape), LAMBDA t :
    IF ~t.ok THEN [g |-> G, r |-> nullptr, ok |-> FALSE]
    ELSE
  With(CreateAllReduce(t.g, new_shape, t.r, G.ins[old].rg, FALSE,
                       G.ins[old].chan, FALSE, "bw"), LAMBDA G1 :
  With(SetTag(G1, t.g.nid, G.ins[old].tag), LAMBDA G2 :
  With(MaybeReshapeConvert(G2, t.g.nid, ShapeOf(G2, old)), LAMBDA b :
    [g |-> ReplaceAllUsesWith(b.g, old, b.r), r |-> t.g.nid, ok |-> TRUE])))))

\* Mutant: the replacement reads the old collective's operands as they are.
Run_FixType_OperandsUnbridged(G, add, old) ==
  With(ShapeOf(G, add), LAMBDA new_shape :
  With(CreateAllReduce(G, new_shape, G.ins[old].opnds, G.ins[old].rg,
                       G.ins[old].constrain_layout, G.ins[old].chan,
                       G.ins[old].use_global_device_ids, "bw"), LAMBDA G1 :
  With(SetTag(G1, G.nid, G.ins[old].tag), LAMBDA G2 :
  With(MaybeReshapeConvert(G2, G.nid, ShapeOf(G2, old)), LAMBDA b :
    [g |-> ReplaceAllUsesWith(b.g, old, b.r), r |-> G.nid, ok |-> TRUE]))))

\* "Fix type mismatch": [g, r |-> the new collective, ok]
Run_FixType(G, add, old) ==
  With(ShapeOf(G, add), LAMBDA new_shape :
  With(MaybeReshapeConvertTuple(G, G.ins[old].opnds, new_shape), LAMBDA t :
    IF ~t.ok THEN [g |-> G, r |-> nullptr, ok |-> FALSE]
    ELSE
  With(CreateAllReduce(t.g, new_shape, t.r, G.ins[old].rg,
                       G.ins[old].constrain_layout, G.ins[old].chan,
                       G.ins[old].use_global_device_ids, "bw"), LAMBDA G1 :
  With(SetTag(G1, t.g.nid, G.ins[old].tag), LAMBDA G2 :
  With(MaybeReshapeConvert(G2, t.g.nid, ShapeOf(G2, old)), LAMBDA b :
    [g |-> ReplaceAllUsesWith(b.g, old, b.r), r |-> t.g.nid, ok |-> TRUE])))))

\* ----------------------------------------------------------------------
\* The steps of GradAccCommDelay::RunOnModuleGroup on one matched pairing
\* ----------------------------------------------------------------------
RECURSIVE Group_DetachFrom(_, _, _, _)
Group_DetachFrom(G, ar, u, i) ==
  IF i >= Len(G.ins[u].opnds) THEN G
  ELSE IF G.ins[u].opnds[i + 1] = ar
    THEN With(MaybeReshapeConvert(G, G.ins[ar].opnds[1],
                                  ShapeOf(G, G.ins[u].opnds[i + 1])),
              LAMBDA b :
                Group_DetachFrom(ReplaceOperandWith(b.g, u, i, b.r), ar, u, i + 1))
  ELSE Group_DetachFrom(G, ar, u, i + 1)

Group_Detach(G, ar, u) == Group_DetachFrom(G, ar, u, 0)

\* The branch in_index == -1
\* Mutant: the Add handed to the collective converted, not reshaped.
Group_InsertAfterAdd_ConvertOnly(G, add, ar) ==
  With(MaybeConvert(G, add, ShapeOf(G, ar)), LAMBDA b :
    ReplaceOperandWith(b.g, ar, 0, b.r))

Group_InsertAfterAdd(G, add, ar) ==
  With(MaybeReshapeConvert(G, add, ShapeOf(G, ar)), LAMBDA b :
    ReplaceOperandWith(b.g, ar, 0, b.r))

Group_ReplaceOutput(G, root, i, add, ar) ==
  With(MaybeReshapeConvert(G, ar, ShapeOf(G, add)), LAMBDA b :
    SetTag(ReplaceOperandWith(b.g, root, i, b.r), ar, kSkippableAllReduce))

Group_TypeMismatch(G, add, ar) ==
  ~SameElementType(ShapeOf(G, ar), ShapeOf(G, add))

Group_FixType(G, add, old) ==
  With(ShapeOf(G, add), LAMBDA new_shape :
  With(MaybeReshapeConvertTuple(G, G.ins[old].opnds, new_shape), LAMBDA t :
    IF ~t.ok THEN [g |-> G, r |-> nullptr, ok |-> FALSE]
    ELSE
  With(CreateAllReduce(t.g, new_shape, t.r, G.ins[old].rg,
                       G.ins[old].constrain_layout, G.ins[old].chan,
                       G.ins[old].use_global_device_ids, "bw"), LAMBDA G1 :
  With(SetTag(G1, t.g.nid, G.ins[old].tag), LAMBDA G2 :
  With(MaybeReshapeConvert(G2, t.g.nid, ShapeOf(G2, old)), LAMBDA b :
    [g |-> ReplaceAllUsesWith(b.g, old, b.r), r |-> t.g.nid, ok |-> TRUE])))))

\* The branch in_index != -1.
\* Mutant: the loop leaves a user after the first position it rewired.
RECURSIVE Group_RewireUser_FirstOnly(_, _, _, _, _)
Group_RewireUser_FirstOnly(G, pu, param, new, i) ==
  IF i >= Len(G.ins[pu].opnds) THEN G
  ELSE IF G.ins[pu].opnds[i + 1] = param
    THEN With(MaybeReshapeConvert(G, new, ShapeOf(G, param)), LAMBDA b :
           ReplaceOperandWith(b.g, pu, i, b.r))
  ELSE Group_RewireUser_FirstOnly(G, pu, param, new, i + 1)

\* The loop over the operand positions of one user pu of the parameter.
RECURSIVE Group_RewireUser(_, _, _, _, _)
Group_RewireUser(G, pu, param, new, i) ==
  IF i >= Len(G.ins[pu].opnds) THEN G
  ELSE IF G.ins[pu].opnds[i + 1] = param
    THEN With(MaybeReshapeConvert(G, new, ShapeOf(G, param)), LAMBDA b :
           Group_RewireUser(ReplaceOperandWith(b.g, pu, i, b.r),
                            pu, param, new, i + 1))
  ELSE Group_RewireUser(G, pu, param, new, i + 1)

\* Mutant: the loop runs over the users the parameter has after the new
\* collective was created, the new collective among them.
RECURSIVE Group_RewireUsers_Current(_, _, _, _)
Group_RewireUsers_Current(G, pus, param, new) ==
  IF pus = {} THEN Group_RewireUser(G, new, param, new, 0)
  ELSE LET pu == CHOOSE m \in pus : \A k \in pus : m <= k
       IN Group_RewireUsers_Current(Group_RewireUser(G, pu, param, new, 0),
                                    pus \ {pu}, param, new)

\* The loop over param_users, the users the parameter had before the new
\* collective was created.
RECURSIVE Group_RewireUsers(_, _, _, _)
Group_RewireUsers(G, pus, param, new) ==
  IF pus = {} THEN G
  ELSE LET pu == CHOOSE m \in pus : \A k \in pus : m <= k
       IN Group_RewireUsers(Group_RewireUser(G, pu, param, new, 0),
                            pus \ {pu}, param, new)

\* Mutant: the counter is read and not advanced.
Group_ChannelId_NoIncrement(G, old, next) ==
  IF G.ins[old].chan # NoChan THEN [id |-> next, next |-> next]
  ELSE [id |-> NoChan, next |-> next]

\* The channel id the new collective gets, and the counter after it.
Group_ChannelId(G, old, next) ==
  IF G.ins[old].chan # NoChan THEN [id |-> next, next |-> next + 1]
  ELSE [id |-> NoChan, next |-> next]

\* Mutant: the relocated collective added to the backward entry.
Group_NewComputation_Backward == "bw"

\* The computation the relocated collective is added to.
Group_NewComputation == "ag"

\* The shape the relocated collective is created with.
Group_NewShape(G, param, old) == ShapeOf(G, param)

\* [g, r |-> the new collective, next |-> the counter, ok]
Group_Relocate(G, params, in_index, add, old, next) ==
  With(SetTag(G, old, kDelayedAllReduce), LAMBDA G0 :
  With(params[in_index + 1], LAMBDA param :
  With(G0.usr[param], LAMBDA param_users :
  With(Group_NewShape(G0, param, old), LAMBDA new_shape :
  With(MaybeReshapeConvertTuple(G0, <<param>>, new_shape), LAMBDA t :
    IF ~t.ok THEN [g |-> G, r |-> nullptr, next |-> next, ok |-> FALSE]
    ELSE
  With(Group_ChannelId(G0, old, next), LAMBDA ch :
  With(CreateAllReduce(t.g, new_shape, t.r, G0.ins[old].rg,
                       G0.ins[old].constrain_layout, ch.id,
                       G0.ins[old].use_global_device_ids,
                       Group_NewComputation),
       LAMBDA G1 :
  With(SetTag(G1, t.g.nid, G0.ins[old].tag), LAMBDA G2 :
    [g |-> Group_RewireUsers(G2, param_users, param, t.g.nid), r |-> t.g.nid,
     next |-> ch.next, ok |-> TRUE]))))))))

\* ----------------------------------------------------------------------
\* State
\* ----------------------------------------------------------------------
VARIABLES
  hlo,              \* the instruction graph of both modules
  unit,             \* bw_root, ag_root: the entry roots; params: the
                    \* parameter instructions of the apply-grad entry
  mode,             \* "single": GradAccRewrite::Run on the backward module
                    \* "group": GradAccCommDelay::RunOnModuleGroup
  toggle,           \* auto_sharding::rewrite_for_grad_acc
  out_idx,          \* auto_sharding::rewrite_indices
  in_idx,           \* auto_sharding::rewrite_applygrad_indices
  pc,               \* the position of the run
  j,                \* the loop position in the index list
  cur,              \* add_ins, allreduce_ins, allreduce_user of the iteration
  to_remove,        \* the instructions scheduled for removal
  r,                \* the position of the removal loop
  next_channel_id,
  ret,              \* the value returned: "none" until the run returns
  log,              \* history: what each iteration found and did
  hlo0,             \* history: the graph the run was given
  run,              \* 1 in the first run of the pass, 2 in a second one
  call              \* the call of a helper function by itself, and its result

vars ==
  <<hlo, unit, mode, toggle, out_idx, in_idx, pc, j, cur, to_remove, r,
    next_channel_id, ret, log, hlo0, run, call>>

\* What no step of a run changes.
given == <<unit, mode, toggle, out_idx, in_idx, hlo0, run, call>>

NoCall ==
  [kind |-> "none", src |-> nullptr, target |-> Shape(<<>>, "none"),
   r |-> nullptr, before |-> EmptyGraph, r2 |-> nullptr, same2 |-> TRUE,
   module |-> "", ok |-> TRUE, str |-> <<>>]

NoCur == [add |-> nullptr, ar |-> nullptr, user |-> nullptr]

SeqsUpTo(S, n) == UNION {[1 .. k -> S] : k \in 0 .. n}

\* The non-sentinel entries of an input index list are distinct: each
\* parameter of the apply-grad module takes one output of the backward one.
DistinctTargets(s) ==
  \A a, b \in DOMAIN s : a # b /\ s[a] # 0 - 1 => s[a] # s[b]

DefaultConsumer == [tP |-> "f32", chanE |-> NoChan]

Init ==
  /\ toggle \in BOOLEAN
  /\ mode \in {"single", "group"}
  /\ \E p \in Producers, q \in Consumers :
       /\ mode = "single" => q = DefaultConsumer
       /\ \E bw \in {BuildProducer(EmptyGraph, p)} :
            \E ag \in {BuildConsumer(bw.g, q)} :
              /\ hlo = ag.g
              /\ unit = [bw_root |-> bw.r, ag_root |-> ag.root,
                         params |-> ag.params]
  \* the entries run over the output positions and one position past them
  /\ out_idx \in SeqsUpTo(0 .. Len(hlo.ins[unit.bw_root].opnds), MaxLen)
  /\ IF mode = "single" THEN in_idx = <<>>
     ELSE /\ in_idx \in [1 .. Len(out_idx) ->
                           (0 - 1) .. (Len(unit.params) - 1)]
          /\ DistinctTargets(in_idx)
  /\ pc = "start"
  /\ j = 0
  /\ cur = NoCur
  /\ to_remove = <<>>
  /\ r = 0
  /\ next_channel_id = 0
  /\ ret = "none"
  /\ log = <<>>
  /\ hlo0 = hlo
  /\ run = 1
  /\ call = NoCall

\* ----------------------------------------------------------------------
\* What the loop body finds at output index i
\* ----------------------------------------------------------------------
Found(kind, add, ar, user, x) ==
  [kind |-> kind, add |-> add, ar |-> ar, user |-> user, x |-> x]

\* Mutant: the user count of the collective is not looked at.
Run_Find_AnyUsers(G, root, i) ==
  LET add == G.ins[root].opnds[i + 1]
      ar == GetAllReduce(G, G.ins[add].opnds[2])
  IN IF G.ins[add].op # "Add"
       THEN Found("notadd", add, nullptr, nullptr, nullptr)
     ELSE IF ar = nullptr
       THEN Found("nomatch", add, nullptr, nullptr, nullptr)
     ELSE IF Len(G.ins[ar].opnds) # 1
       THEN Found("check", add, ar, nullptr, nullptr)
     ELSE Found("match", add, ar, CHOOSE u \in G.usr[ar] : TRUE,
                G.ins[ar].opnds[1])

Run_Find(G, root, i) ==
  LET add == G.ins[root].opnds[i + 1]
      ar == GetAllReduce(G, G.ins[add].opnds[2])
  IN IF G.ins[add].op # "Add"
       THEN Found("notadd", add, nullptr, nullptr, nullptr)
     ELSE IF ar = nullptr
       THEN Found("nomatch", add, nullptr, nullptr, nullptr)
     ELSE IF Cardinality(G.usr[ar]) # 1
       THEN Found("users", add, ar, nullptr, nullptr)
     ELSE IF Len(G.ins[ar].opnds) # 1
       THEN Found("check", add, ar, nullptr, nullptr)
     ELSE Found("match", add, ar, CHOOSE u \in G.usr[ar] : TRUE,
                G.ins[ar].opnds[1])

Group_Find(G, root, i) ==
  LET add == G.ins[root].opnds[i + 1]
      ar == GetAllReduce(G, G.ins[add].opnds[2])
  IN IF G.ins[add].op # "Add"
       THEN Found("notadd", add, nullptr, nullptr, nullptr)
     ELSE IF ar = nullptr
       THEN Found("nomatch", add, nullptr, nullptr, nullptr)
     ELSE IF Cardinality(G.usr[ar]) # 1
       THEN Found("users", add, ar, nullptr, nullptr)
     ELSE IF Len(G.ins[ar].opnds) # 1
       THEN Found("check", add, ar, nullptr, nullptr)
     ELSE Found("match", add, ar, CHOOSE u \in G.usr[ar] : TRUE,
                G.ins[ar].opnds[1])

SoftMismatch == {"notadd", "nomatch", "users"}

\* One entry of the history.
Entry(f, out, in) ==
  [out |-> out, in |-> in, kind |-> f.kind, add |-> f.add, ar |-> f.ar,
   user |-> f.user, x |-> f.x, new |-> nullptr, chan |-> NoChan]

InRange(i) == i < Len(hlo.ins[unit.bw_root].opnds)

\* The value the run returns once the removal loop is over.
Run_Result == "true"

Group_Result == "true"

\* Replacing the last entry of the history.
Amend(l, e) == [l EXCEPT ![Len(l)] = e]

Last(l) == l[Len(l)]

\* ----------------------------------------------------------------------
\* GradAccRewrite::Run as a function of the module and the index list
\* ----------------------------------------------------------------------
\* The loop body at index i: [g, rem |-> to_remove].  An index past the root
\* operands is taken as skipped.
Run_Body(G, root, i, rem) ==
  IF i >= Len(G.ins[root].opnds) THEN [g |-> G, rem |-> rem]
  ELSE With(Run_Find(G, root, i), LAMBDA f :
    IF f.kind # "match" THEN [g |-> G, rem |-> rem]
    ELSE
  With(Run_Detach(G, f.ar, f.user), LAMBDA G1 :
  With(Run_InsertAfterAdd(G1, f.add, f.ar), LAMBDA G2 :
  With(Run_ReplaceOutput(G2, root, i, f.add, f.ar), LAMBDA G3 :
    IF Run_TypeMismatch(G3, f.add, f.ar)
      THEN [g |-> Run_FixType(G3, f.add, f.ar).g, rem |-> Append(rem, f.ar)]
    ELSE [g |-> G3, rem |-> rem]))))

\* for (size_t i : indices), from position k of the list on
RECURSIVE Run_Loop(_, _, _, _, _)
Run_Loop(G, root, idx, k, rem) ==
  IF k > Len(idx) THEN [g |-> G, rem |-> rem]
  ELSE With(Run_Body(G, root, idx[k], rem), LAMBDA b :
         Run_Loop(b.g, root, idx, k + 1, b.rem))

\* for (auto ins : to_remove)
RECURSIVE Run_Remove(_, _, _, _)
Run_Remove(G, root, rem, k) ==
  IF k > Len(rem) THEN G
  ELSE Run_Remove(RemoveInstruction(G, root, rem[k]), root, rem, k + 1)

\* The module after GradAccRewrite::Run.
Run_Whole(G, root, idx, t) ==
  IF ~t THEN G
  ELSE With(Run_Loop(G, root, idx, 1, <<>>), LAMBDA l :
         Run_Remove(l.g, root, l.rem, 1))

\* ----------------------------------------------------------------------
\* GradAccRewrite::Run
\* ----------------------------------------------------------------------
\* Mutant: the toggle is not looked at.
Run_Enabled_Always(t) == TRUE

\* pass_context::GetBool("auto_sharding::rewrite_for_grad_acc", false)
Run_Enabled(t) == t

Run_Disabled ==
  /\ pc = "start" /\ mode = "single" /\ ~Run_Enabled(toggle)
  /\ pc' = "done" /\ ret' = "false"
  /\ UNCHANGED <<hlo, given, j, cur, to_remove, r, next_channel_id, log>>

Run_Enter ==
  /\ pc = "start" /\ mode = "single" /\ Run_Enabled(toggle)
  /\ pc' = "loop" /\ j' = 0 /\ to_remove' = <<>>
  /\ UNCHANGED <<hlo, given, cur, r, next_channel_id, ret, log>>

\* output_tuple->mutable_operand(i) past the operands is undefined: the run
\* is killed (a hardened build, a fault) ...
Run_OutOfRangeAbort ==
  /\ pc = "loop" /\ mode = "single" /\ j < Len(out_idx)
  /\ ~InRange(out_idx[j + 1])
  /\ pc' = "fatal"
  /\ log' = Append(log, Entry(Found("oob", nullptr, nullptr, nullptr, nullptr),
                              out_idx[j + 1], 0 - 1))
  /\ UNCHANGED <<hlo, given, j, cur, to_remove, r, next_channel_id, ret>>

\* ... or what it reads there does not look like an Add and the loop goes on.
Run_OutOfRangeSkip ==
  /\ pc = "loop" /\ mode = "single" /\ j < Len(out_idx)
  /\ ~InRange(out_idx[j + 1])
  /\ j' = j + 1
  /\ log' = Append(log, Entry(Found("oob", nullptr, nullptr, nullptr, nullptr),
                              out_idx[j + 1], 0 - 1))
  /\ UNCHANGED <<hlo, given, pc, cur, to_remove, r, next_channel_id, ret>>

Run_Skip ==
  /\ pc = "loop" /\ mode = "single" /\ j < Len(out_idx)
  /\ InRange(out_idx[j + 1])
  /\ LET f == Run_Find(hlo, unit.bw_root, out_idx[j + 1])
     IN /\ f.kind \in SoftMismatch
        /\ log' = Append(log, Entry(f, out_idx[j + 1], 0 - 1))
  /\ j' = j + 1
  /\ UNCHANGED <<hlo, given, pc, cur, to_remove, r, next_channel_id, ret>>

Run_Match ==
  /\ pc = "loop" /\ mode = "single" /\ j < Len(out_idx)
  /\ InRange(out_idx[j + 1])
  /\ LET f == Run_Find(hlo, unit.bw_root, out_idx[j + 1])
     IN /\ f.kind \notin SoftMismatch
        /\ log' = Append(log, Entry(f, out_idx[j + 1], 0 - 1))
        /\ cur' = [add |-> f.add, ar |-> f.ar, user |-> f.user]
        /\ pc' = IF f.kind = "match" THEN "detach" ELSE "fatal"
  /\ UNCHANGED <<hlo, given, j, to_remove, r, next_channel_id, ret>>

Run_DetachStep ==
  /\ pc = "detach" /\ mode = "single"
  /\ hlo' = Run_Detach(hlo, cur.ar, cur.user)
  /\ pc' = "insert"
  /\ UNCHANGED <<given, j, cur, to_remove, r, next_channel_id, ret, log>>

Run_InsertStep ==
  /\ pc = "insert" /\ mode = "single"
  /\ hlo' = Run_InsertAfterAdd(hlo, cur.add, cur.ar)
  /\ pc' = "output"
  /\ UNCHANGED <<given, j, cur, to_remove, r, next_channel_id, ret, log>>

Run_OutputStep ==
  /\ pc = "output" /\ mode = "single"
  /\ hlo' = Run_ReplaceOutput(hlo, unit.bw_root, out_idx[j + 1], cur.add,
                              cur.ar)
  /\ IF Run_TypeMismatch(hlo', cur.add, cur.ar)
       THEN /\ pc' = "fixtype"
            /\ UNCHANGED <<j, cur, log>>
       ELSE /\ pc' = "loop" /\ j' = j + 1 /\ cur' = NoCur
            /\ log' = Amend(log, [Last(log) EXCEPT !.kind = "rewritten"])
  /\ UNCHANGED <<given, to_remove, r, next_channel_id, ret>>

Run_FixTypeStep ==
  /\ pc = "fixtype" /\ mode = "single"
  /\ LET t == Run_FixType(hlo, cur.add, cur.ar)
     IN IF t.ok
          THEN /\ hlo' = t.g
               /\ to_remove' = Append(to_remove, cur.ar)
               /\ pc' = "loop" /\ j' = j + 1 /\ cur' = NoCur
               /\ log' = Amend(log, [Last(log) EXCEPT !.kind = "typefixed",
                                                      !.new = t.r])
          ELSE /\ pc' = "fatal"
               /\ UNCHANGED <<hlo, to_remove, j, cur, log>>
  /\ UNCHANGED <<given, r, next_channel_id, ret>>

Run_LoopExit ==
  /\ pc = "loop" /\ mode = "single" /\ j >= Len(out_idx)
  /\ pc' = "reap" /\ r' = 0
  /\ UNCHANGED <<hlo, given, j, cur, to_remove, next_channel_id, ret, log>>

Run_Reap ==
  /\ pc = "reap" /\ mode = "single" /\ r < Len(to_remove)
  /\ hlo' = RemoveInstruction(hlo, unit.bw_root, to_remove[r + 1])
  /\ r' = r + 1
  /\ UNCHANGED <<given, pc, j, cur, to_remove, next_channel_id, ret, log>>

Run_Return ==
  /\ pc = "reap" /\ mode = "single" /\ r >= Len(to_remove)
  /\ pc' = "done" /\ ret' = Run_Result
  /\ UNCHANGED <<hlo, given, j, cur, to_remove, r, next_channel_id, log>>

\* GradAccRewrite::Run called once more, with the same toggle and index list,
\* on the module the first call returned.
Run_Again ==
  /\ pc = "done" /\ mode = "single" /\ run = 1
  /\ run' = 2 /\ hlo0' = hlo
  /\ pc' = "start" /\ j' = 0 /\ cur' = NoCur /\ to_remove' = <<>> /\ r' = 0
  /\ ret' = "none" /\ log' = <<>> /\ call' = NoCall
  /\ UNCHANGED <<hlo, unit, mode, toggle, out_idx, in_idx, next_channel_id>>

\* GetGradSyncChannelIds(module) on one of the modules a run returned.
Query ==
  /\ pc = "done" /\ call = NoCall
  /\ \E comp \in {"bw", "ag"} :
       call' = [NoCall EXCEPT !.kind = "GetGradSyncChannelIds",
                              !.module = comp,
                              !.ok = GetGradSyncChannelIds(hlo, comp).ok,
                              !.str = GetGradSyncChannelIds(hlo, comp).str]
  /\ UNCHANGED <<hlo, unit, mode, toggle, out_idx, in_idx, pc, j, cur,
                 to_remove, r, next_channel_id, ret, log, hlo0, run>>

\* ----------------------------------------------------------------------
\* GradAccCommDelay::RunOnModuleGroup
\* ----------------------------------------------------------------------
Group_Enabled(t) == t

Group_Disabled ==
  /\ pc = "start" /\ mode = "group" /\ ~Group_Enabled(toggle)
  /\ pc' = "done" /\ ret' = "false"
  /\ UNCHANGED <<hlo, given, j, cur, to_remove, r, next_channel_id, log>>

Group_Enter ==
  /\ pc = "start" /\ mode = "group" /\ Group_Enabled(toggle)
  /\ next_channel_id' = NextChannelId(hlo, "ag")
  /\ to_remove' = <<>> /\ j' = 0
  /\ pc' = IF Len(out_idx) = Len(in_idx) THEN "loop" ELSE "fatal"
  /\ UNCHANGED <<hlo, given, cur, r, ret, log>>

\* Mutant: the loop stops one pairing early.
Group_More_OneShort(jj) == jj < Len(out_idx) - 1

\* for (size_t j = 0; j<output_indices.size(); j++)
Group_More(jj) == jj < Len(out_idx)

Group_OutOfRangeAbort ==
  /\ pc = "loop" /\ mode = "group" /\ Group_More(j)
  /\ ~InRange(out_idx[j + 1])
  /\ pc' = "fatal"
  /\ log' = Append(log, Entry(Found("oob", nullptr, nullptr, nullptr, nullptr),
                              out_idx[j + 1], in_idx[j + 1]))
  /\ UNCHANGED <<hlo, given, j, cur, to_remove, r, next_channel_id, ret>>

Group_OutOfRangeSkip ==
  /\ pc = "loop" /\ mode = "group" /\ Group_More(j)
  /\ ~InRange(out_idx[j + 1])
  /\ j' = j + 1
  /\ log' = Append(log, Entry(Found("oob", nullptr, nullptr, nullptr, nullptr),
                              out_idx[j + 1], in_idx[j + 1]))
  /\ UNCHANGED <<hlo, given, pc, cur, to_remove, r, next_channel_id, ret>>

Group_Skip ==
  /\ pc = "loop" /\ mode = "group" /\ Group_More(j)
  /\ InRange(out_idx[j + 1])
  /\ LET f == Group_Find(hlo, unit.bw_root, out_idx[j + 1])
     IN /\ f.kind \in SoftMismatch
        /\ log' = Append(log, Entry(f, out_idx[j + 1], in_idx[j + 1]))
  /\ j' = j + 1
  /\ UNCHANGED <<hlo, given, pc, cur, to_remove, r, next_channel_id, ret>>

Group_Match ==
  /\ pc = "loop" /\ mode = "group" /\ Group_More(j)
  /\ InRange(out_idx[j + 1])
  /\ LET f == Group_Find(hlo, unit.bw_root, out_idx[j + 1])
     IN /\ f.kind \notin SoftMismatch
        /\ log' = Append(log, Entry(f, out_idx[j + 1], in_idx[j + 1]))
        /\ cur' = [add |-> f.add, ar |-> f.ar, user |-> f.user]
        /\ pc' = IF f.kind = "match" THEN "detach" ELSE "fatal"
  /\ UNCHANGED <<hlo, given, j, to_remove, r, next_channel_id, ret>>

\* Mutant: every pairing is taken as a sentinel pairing.
Group_Sentinel_Always(in_index) == TRUE

\* if (in_index == -1)
Group_Sentinel(in_index) == in_index = 0 - 1

Group_DetachStep ==
  /\ pc = "detach" /\ mode = "group"
  /\ hlo' = Group_Detach(hlo, cur.ar, cur.user)
  /\ pc' = IF Group_Sentinel(in_idx[j + 1]) THEN "insert" ELSE "relocate"
  /\ UNCHANGED <<given, j, cur, to_remove, r, next_channel_id, ret, log>>

Group_InsertStep ==
  /\ pc = "insert" /\ mode = "group"
  /\ hlo' = Group_InsertAfterAdd(hlo, cur.add, cur.ar)
  /\ pc' = "output"
  /\ UNCHANGED <<given, j, cur, to_remove, r, next_channel_id, ret, log>>

Group_OutputStep ==
  /\ pc = "output" /\ mode = "group"
  /\ hlo' = Group_ReplaceOutput(hlo, unit.bw_root, out_idx[j + 1], cur.add,
                                cur.ar)
  /\ IF Group_TypeMismatch(hlo', cur.add, cur.ar)
       THEN /\ pc' = "fixtype"
            /\ UNCHANGED <<j, cur, log>>
       ELSE /\ pc' = "loop" /\ j' = j + 1 /\ cur' = NoCur
            /\ log' = Amend(log, [Last(log) EXCEPT !.kind = "rewritten"])
  /\ UNCHANGED <<given, to_remove, r, next_channel_id, ret>>

Group_FixTypeStep ==
  /\ pc = "fixtype" /\ mode = "group"
  /\ LET t == Group_FixType(hlo, cur.add, cur.ar)
     IN IF t.ok
          THEN /\ hlo' = t.g
               /\ to_remove' = Append(to_remove, cur.ar)
               /\ pc' = "loop" /\ j' = j + 1 /\ cur' = NoCur
               /\ log' = Amend(log, [Last(log) EXCEPT !.kind = "typefixed",
                                                      !.new = t.r])
          ELSE /\ pc' = "fatal"
               /\ UNCHANGED <<hlo, to_remove, j, cur, log>>
  /\ UNCHANGED <<given, r, next_channel_id, ret>>

\* assert(SameElementType(add, param)) in a build that keeps assertions
Group_AssertFails ==
  /\ pc = "relocate" /\ mode = "group"
  /\ ~SameElementType(ShapeOf(hlo, cur.add),
                      ShapeOf(hlo, unit.params[in_idx[j + 1] + 1]))
  /\ pc' = "fatal"
  /\ UNCHANGED <<hlo, given, j, cur, to_remove, r, next_channel_id, ret, log>>

Group_RelocateStep ==
  /\ pc = "relocate" /\ mode = "group"
  /\ LET t == Group_Relocate(hlo, unit.params, in_idx[j + 1], cur.add, cur.ar,
                             next_channel_id)
     IN IF t.ok
          THEN /\ hlo' = t.g
               /\ next_channel_id' = t.next
               /\ to_remove' = Append(to_remove, cur.ar)
               /\ pc' = "loop" /\ j' = j + 1 /\ cur' = NoCur
               /\ log' = Amend(log, [Last(log) EXCEPT
                                       !.kind = "relocated", !.new = t.r,
                                       !.chan = t.g.ins[t.r].chan])
          ELSE /\ pc' = "fatal"
               /\ UNCHANGED <<hlo, next_channel_id, to_remove, j, cur, log>>
  /\ UNCHANGED <<given, r, ret>>

Group_LoopExit ==
  /\ pc = "loop" /\ mode = "group" /\ ~Group_More(j)
  /\ pc' = "reap" /\ r' = 0
  /\ UNCHANGED <<hlo, given, j, cur, to_remove, next_channel_id, ret, log>>

Group_Reap ==
  /\ pc = "reap" /\ mode = "group" /\ r < Len(to_remove)
  /\ hlo' = RemoveInstruction(hlo, unit.bw_root, to_remove[r + 1])
  /\ r' = r + 1
  /\ UNCHANGED <<given, pc, j, cur, to_remove, next_channel_id, ret, log>>

Group_Return ==
  /\ pc = "reap" /\ mode = "group" /\ r >= Len(to_remove)
  /\ pc' = "done" /\ ret' = Group_Result
  /\ UNCHANGED <<hlo, given, j, cur, to_remove, r, next_channel_id, log>>

Next ==
  \/ Run_Disabled \/ Run_Enter
  \/ Run_OutOfRangeAbort \/ Run_OutOfRangeSkip \/ Run_Skip \/ Run_Match
  \/ Run_DetachStep \/ Run_InsertStep \/ Run_OutputStep \/ Run_FixTypeStep
  \/ Run_LoopExit \/ Run_Reap \/ Run_Return \/ Run_Again
  \/ Group_Disabled \/ Group_Enter
  \/ Group_OutOfRangeAbort \/ Group_OutOfRangeSkip \/ Group_Skip
  \/ Group_Match
  \/ Group_DetachStep \/ Group_InsertStep \/ Group_OutputStep
  \/ Group_FixTypeStep \/ Group_AssertFails \/ Group_RelocateStep
  \/ Group_LoopExit \/ Group_Reap \/ Group_Return
  \/ Query

Spec == Init /\ [][Next]_vars

\* One invocation of a rewrite: the steps of Next but the second call and
\* the query.
Invocation ==
  \/ Run_Disabled \/ Run_Enter
  \/ Run_OutOfRangeAbort \/ Run_OutOfRangeSkip \/ Run_Skip \/ Run_Match
  \/ Run_DetachStep \/ Run_InsertStep \/ Run_OutputStep \/ Run_FixTypeStep
  \/ Run_LoopExit \/ Run_Reap \/ Run_Return
  \/ Group_Disabled \/ Group_Enter
  \/ Group_OutOfRangeAbort \/ Group_OutOfRangeSkip \/ Group_Skip
  \/ Group_Match
  \/ Group_DetachStep \/ Group_InsertStep \/ Group_OutputStep
  \/ Group_FixTypeStep \/ Group_AssertFails \/ Group_RelocateStep
  \/ Group_LoopExit \/ Group_Reap \/ Group_Return

\* The rewrite runs on one thread and no step of it waits for anything: a
\* step that can be taken is taken.
LiveSpec == Init /\ [][Invocation]_vars /\ WF_vars(Invocation)

\* ----------------------------------------------------------------------
\* The helper functions called by themselves, on every graph of up to
\* MaxNodes instructions
\* ----------------------------------------------------------------------
ArrayShapes == {Shape(d, t) : d \in {D1, D2}, t \in Types}

OtherType(t) == IF t = "f32" THEN "bf16" ELSE "f32"

OtherDims(d) == IF d = D1 THEN D2 ELSE D1

UnaryOps == PassThrough \cup {"AllReduce", "Negate"}

BinaryOps == {"Multiply", "Add"}

\* The instruction of opcode op over the operands a and b (a alone when op
\* is unary), with the shape the opcode gives it.
HelperIns(G, op, a, b) ==
  With(ShapeOf(G, a), LAMBDA sa :
    Ins(op,
        IF op = "Convert" THEN Shape(sa.dims, OtherType(sa.ty))
        ELSE IF op = "Reshape" THEN Shape(OtherDims(sa.dims), sa.ty)
        ELSE sa,
        IF op \in BinaryOps THEN <<a, b>> ELSE <<a>>, "bw"))

HelperVars ==
  <<unit, mode, toggle, out_idx, in_idx, j, cur, to_remove, r,
    next_channel_id, ret, log, hlo0, run>>

HelperInit ==
  /\ \E s \in ArrayShapes :
       hlo = AddInstruction(EmptyGraph, Ins("Parameter", s, <<>>, "bw"))
  /\ mode = "helper" /\ pc = "build" /\ call = NoCall
  /\ unit = [bw_root |-> nullptr, ag_root |-> nullptr, params |-> <<>>]
  /\ toggle = TRUE /\ out_idx = <<>> /\ in_idx = <<>>
  /\ j = 0 /\ cur = NoCur /\ to_remove = <<>> /\ r = 0
  /\ next_channel_id = 0 /\ ret = "none" /\ log = <<>>
  /\ hlo0 = EmptyGraph /\ run = 1

\* One more instruction over the instructions there are.
Helper_AddUnary ==
  /\ pc = "build" /\ hlo.nid <= MaxNodes
  /\ \E op \in UnaryOps, a \in Ids(hlo) :
       hlo' = AddInstruction(hlo, HelperIns(hlo, op, a, a))
  /\ UNCHANGED <<HelperVars, pc, call>>

Helper_AddBinary ==
  /\ pc = "build" /\ hlo.nid <= MaxNodes
  /\ \E op \in BinaryOps, a \in Ids(hlo), b \in Ids(hlo) :
       /\ ShapeOf(hlo, a) = ShapeOf(hlo, b)
       /\ hlo' = AddInstruction(hlo, HelperIns(hlo, op, a, b))
  /\ UNCHANGED <<HelperVars, pc, call>>

\* GetAllReduce(src)
Helper_GetAllReduce ==
  /\ pc = "build"
  /\ \E src \in Ids(hlo) :
       call' = [NoCall EXCEPT !.kind = "GetAllReduce", !.src = src,
                              !.r = GetAllReduce(hlo, src), !.before = hlo]
  /\ pc' = "called"
  /\ UNCHANGED <<HelperVars, hlo>>

\* MaybeReshapeConvert(src, target), and once more on what it returned
Helper_MaybeReshapeConvert ==
  /\ pc = "build"
  /\ \E src \in Ids(hlo), target \in ArrayShapes :
       \E b \in {MaybeReshapeConvert(hlo, src, target)} :
         \E b2 \in {MaybeReshapeConvert(b.g, b.r, target)} :
           /\ hlo' = b.g
           /\ call' = [kind |-> "MaybeReshapeConvert", src |-> src,
                       target |-> target, r |-> b.r, before |-> hlo,
                       r2 |-> b2.r, same2 |-> (b2.g = b.g)]
  /\ pc' = "called"
  /\ UNCHANGED HelperVars

HelperNext ==
  \/ Helper_AddUnary \/ Helper_AddBinary
  \/ Helper_GetAllReduce \/ Helper_MaybeReshapeConvert

HelperSpec == HelperInit /\ [][HelperNext]_vars

\* ----------------------------------------------------------------------
\* MaybeReshapeConvertTuple called by itself, on every operand list over two
\* parameters and every array or tuple target
\* ----------------------------------------------------------------------
TupleTargets ==
  ArrayShapes \cup {TupleShape(e) : e \in SeqsUpTo(ArrayShapes, MaxArity)}

TupleInit ==
  /\ \E s1 \in ArrayShapes, s2 \in ArrayShapes :
       hlo = AddInstruction(
               AddInstruction(EmptyGraph, Ins("Parameter", s1, <<>>, "bw")),
               Ins("Parameter", s2, <<>>, "bw"))
  /\ hlo0 = hlo
  /\ mode = "tuple" /\ pc = "build" /\ call = NoCall
  /\ unit = [bw_root |-> nullptr, ag_root |-> nullptr, params |-> <<>>]
  /\ toggle = TRUE /\ out_idx = <<>> /\ in_idx = <<>>
  /\ j = 0 /\ cur = NoCur /\ to_remove = <<>> /\ r = 0
  /\ next_channel_id = 0 /\ ret = "none" /\ log = <<>> /\ run = 1

\* MaybeReshapeConvertTuple(src, target) returns
Tuple_Returns ==
  /\ pc = "build"
  /\ \E src \in SeqsUpTo(Ids(hlo), MaxArity), target \in TupleTargets :
       \E t \in {MaybeReshapeConvertTuple(hlo, src, target)} :
         /\ t.ok
         /\ hlo' = t.g
         /\ call' = [kind |-> "MaybeReshapeConvertTuple", srcs |-> src,
                     target |-> target, rs |-> t.r, ok |-> TRUE]
  /\ pc' = "called"
  /\ UNCHANGED HelperVars

\* one of its CHECKs fails
Tuple_CheckFails ==
  /\ pc = "build"
  /\ \E src \in SeqsUpTo(Ids(hlo), MaxArity), target \in TupleTargets :
       \E t \in {MaybeReshapeConvertTuple(hlo, src, target)} :
         /\ ~t.ok
         /\ call' = [kind |-> "MaybeReshapeConvertTuple", srcs |-> src,
                     target |-> target, rs |-> t.r, ok |-> FALSE]
  /\ pc' = "fatal"
  /\ UNCHANGED <<HelperVars, hlo>>

TupleNext == Tuple_Returns \/ Tuple_CheckFails

TupleSpec == TupleInit /\ [][TupleNext]_vars

\* ----------------------------------------------------------------------
\* Vocabulary of the properties
\* ----------------------------------------------------------------------
\* A bridge node: a Reshape or Convert the run created.
IsBridge(G, n) ==
  n \in Ids(G) /\ n \notin Ids(hlo0) /\ G.ins[n].op \in {"Reshape", "Convert"}

\* The instruction behind the bridge nodes from n down.
RECURSIVE BehindBridges(_, _)
BehindBridges(G, n) ==
  IF IsBridge(G, n) THEN BehindBridges(G, G.ins[n].opnds[1]) ELSE n

IsCollective(G, n) == n \in Ids(G) /\ G.ins[n].op = "AllReduce"

Reinserted == {"rewritten", "typefixed"}

Positions(G, n) == 0 .. (Len(G.ins[n].opnds) - 1)

\* The entries of the history whose index matched in GradAccRewrite::Run.
RunMatches ==
  {k \in DOMAIN log : mode = "single" /\ log[k].kind \in Reinserted}

Channelled(G) == {n \in Ids(G) : IsCollective(G, n) /\ G.ins[n].chan # NoChan}

Relocations == {k \in DOMAIN log : log[k].kind = "relocated"}

\* C2: channel-id uniqueness across the unit group.  After RunOnModuleGroup
\* has finished a pairing list that relocated at least one collective, no two
\* communication instructions of the two modules carry the same channel id.
C2_ChannelIdsUnique ==
  (mode = "group" /\ pc = "done" /\ Relocations # {}) =>
    \A a, b \in Channelled(hlo) : a # b => hlo.ins[a].chan # hlo.ins[b].chan

\* The channel ids of the group are unique before the run.
C2_UniqueBefore ==
  \A a, b \in Channelled(hlo0) : a # b => hlo0.ins[a].chan # hlo0.ins[b].chan

\* The new collectives of the apply-grad module.
NewCollectives(G) ==
  {n \in Ids(G) \ Ids(hlo0) : IsCollective(G, n) /\ G.ins[n].comp = "ag"}

C4_NoDanglingReferences ==
  pc = "done" =>
    \A n \in Ids(hlo) :
      /\ \A o \in Range(hlo.ins[n].opnds) :
           o \in Ids(hlo) /\ hlo.ins[o].comp = hlo.ins[n].comp
      /\ hlo.usr[n] = ComputedUsers(hlo, n)

C4_Witness ==
  /\ pc = "done" /\ Relocations # {}
  /\ \E k \in DOMAIN log : log[k].kind = "typefixed" /\ log[k].ar \notin Ids(hlo)

\* The shapes at the operand positions of an entry root.
RootShapes(G, root) ==
  [i \in DOMAIN G.ins[root].opnds |-> ShapeOf(G, G.ins[root].opnds[i])]

\* C5: output-count preservation.  During and after a run the entry root of
\* each module has as many operands as before the run and the shape at each
\* of its operand positions is the shape before the run.
C5_OutputsPreserved ==
  /\ RootShapes(hlo, unit.bw_root) = RootShapes(hlo0, unit.bw_root)
  /\ RootShapes(hlo, unit.ag_root) = RootShapes(hlo0, unit.ag_root)

C5_Witness ==
  /\ pc = "done"
  /\ hlo.ins[unit.bw_root].opnds # hlo0.ins[unit.bw_root].opnds
  /\ hlo.ins[unit.ag_root].opnds # hlo0.ins[unit.ag_root].opnds
  /\ \E k \in DOMAIN log : log[k].kind = "typefixed"

\* The index at the loop position is one the loop body gives up on without
\* a fatal error: the root operand is not an Add, or no collective is found
\* from the Add's second operand, or the collective found does not have
\* exactly one user.
SoftCondition ==
  LET add == hlo.ins[unit.bw_root].opnds[out_idx[j + 1] + 1]
  IN \/ hlo.ins[add].op # "Add"
     \/ GetAllReduce(hlo, hlo.ins[add].opnds[2]) = nullptr
     \/ Cardinality(ComputedUsers(hlo, GetAllReduce(hlo, hlo.ins[add].opnds[2])))
          # 1

\* A Multiply both of whose operands lead to a collective.
AmbiguousMultiply(G, n) ==
  /\ G.ins[n].op = "Multiply"
  /\ GetAllReduce(G, G.ins[n].opnds[1]) # nullptr
  /\ GetAllReduce(G, G.ins[n].opnds[2]) # nullptr

\* C6: soft mismatch leaves the graph unchanged.  When the loop of either
\* rewrite stands at a valid index whose root operand is not an Add, or
\* GetAllReduce returns none for the Add's second operand (an ambiguous
\* Multiply is such a case), or the collective found does not have exactly
\* one user, the step taken there changes no instruction, operand, tag or
\* channel id, schedules no removal, allocates no channel id, and leaves the
\* loop at the next index of the list.
C6_SoftMismatchUnchanged ==
  [][(pc = "loop" /\ j < Len(out_idx) /\ InRange(out_idx[j + 1])
      /\ SoftCondition)
     => /\ hlo' = hlo
        /\ to_remove' = to_remove
        /\ next_channel_id' = next_channel_id
        /\ pc' = "loop" /\ j' = j + 1]_vars

\* C6: from an ambiguous Multiply GetAllReduce returns none.
C6_AmbiguousIsNone ==
  \A n \in Ids(hlo) :
    AmbiguousMultiply(hlo, n) => GetAllReduce(hlo, n) = nullptr

C6_Witness ==
  /\ pc = "done" /\ Len(log) = 2
  /\ log[1].kind = "nomatch"
  /\ AmbiguousMultiply(hlo0, hlo0.ins[log[1].add].opnds[2])
  /\ log[2].kind \in {"rewritten", "typefixed", "relocated"}
  /\ hlo # hlo0

C6_UsersWitness ==
  /\ pc = "done" /\ Len(log) = 2
  /\ log[1].kind = "users"
  /\ log[2].kind \in {"notadd", "rewritten", "typefixed", "relocated"}

Rewrites == {k \in DOMAIN log : log[k].kind \in Reinserted \cup {"relocated"}}

\* C7: the value returned by GradAccRewrite::Run and by RunOnModuleGroup is
\* true exactly when at least one requested index was rewritten.
C7_TrueExactlyWhenRewritten ==
  pc = "done" => (ret = "true" <=> Rewrites # {})

\* C8: feature toggle.  When auto_sharding::rewrite_for_grad_acc is false
\* both rewrites return false, no index is looked at, no instruction is
\* inspected, no channel id is looked up, and the graph of every module is
\* the graph the run was given.
C8_ToggleOff ==
  ~toggle =>
    /\ pc \in {"start", "done"}
    /\ pc = "done" => ret = "false"
    /\ hlo = hlo0
    /\ log = <<>> /\ j = 0 /\ cur = NoCur /\ to_remove = <<>>
    /\ next_channel_id = 0

C8_Witness ==
  /\ ~toggle /\ pc = "done" /\ ret = "false" /\ mode = "group"
  /\ Len(out_idx) = MaxLen
  /\ \E k \in DOMAIN out_idx :
       Run_Find(hlo, unit.bw_root, out_idx[k]).kind = "match"

\* C9: an out-of-range index is a soft mismatch.  A requested output index
\* that is not an operand position of the entry root never ends the run with
\* a fatal error.
C9_OutOfRangeNotFatal ==
  pc = "fatal" => ~(log # <<>> /\ Last(log).kind = "oob")

\* The relocations that were given a channel id.
Allocations == {k \in Relocations : log[k].chan # NoChan}

\* C10: channel-id allocation in RunOnModuleGroup.  Every id given to a
\* relocated collective is greater than every channel id the apply-grad
\* module held when the run started, and the ids given to the relocations of
\* one run are strictly increasing in the order of the pairing list (so
\* pairwise distinct).
C10_ChannelIdAllocation ==
  \A k \in Allocations :
    /\ \A n \in Channelled(hlo0) :
         hlo0.ins[n].comp = "ag" => log[k].chan > hlo0.ins[n].chan
    /\ \A k2 \in Allocations : k < k2 => log[k].chan < log[k2].chan
    /\ log[k].chan = hlo.ins[log[k].new].chan

C10_Witness ==
  /\ pc = "done" /\ Cardinality(Allocations) = 2
  /\ \E n \in Channelled(hlo0) : hlo0.ins[n].comp = "ag"

\* C11: idempotence of GradAccRewrite::Run.  A second run with the same
\* index list on the graph the first run produced changes nothing: in every
\* state of the second run the graph is the graph the second run was given.
C11_SecondRunChangesNothing == run = 2 => hlo = hlo0

AllSentinel == \A k \in DOMAIN in_idx : in_idx[k] = 0 - 1

\* The instructions of the apply-grad module.
InConsumer(G) == {n \in Ids(G) : G.ins[n].comp = "ag"}

\* C12: sentinel equivalence.  When every input index of the pairing list
\* is -1, RunOnModuleGroup returns with the backward module in exactly the
\* graph that GradAccRewrite::Run produces from the same module and output
\* index list (the single-unit run itself ends in that graph), and with the
\* apply-grad module unchanged: no instruction added, none rewired, no
\* channel id allocated.
C12_SentinelEquivalence ==
  /\ (mode = "single" /\ pc = "done")
       => hlo = Run_Whole(hlo0, unit.bw_root, out_idx, toggle)
  /\ (mode = "group" /\ pc = "done" /\ AllSentinel)
       => /\ hlo = Run_Whole(hlo0, unit.bw_root, out_idx, toggle)
          /\ InConsumer(hlo) = InConsumer(hlo0)
          /\ \A n \in InConsumer(hlo0) :
               hlo.ins[n] = hlo0.ins[n] /\ hlo.usr[n] = hlo0.usr[n]
          /\ toggle => next_channel_id = NextChannelId(hlo0, "ag")

C12_Witness ==
  /\ mode = "group" /\ pc = "done" /\ AllSentinel
  /\ \E k \in DOMAIN log : log[k].kind = "typefixed"
  /\ \E k \in DOMAIN log : log[k].kind = "rewritten"
  /\ \E n \in Ids(hlo) \ Ids(hlo0) : hlo.ins[n].op = "Reshape"

\* The parameter of the apply-grad entry an entry of the history names.
ParamOf(e) == unit.params[e.in + 1]

\* C13: relocation precondition.  When a relocation is requested and the
\* element type of the Add differs from the element type of the apply-grad
\* parameter at in_index, the run ends in a fatal failure: no collective is
\* created for the pairing, no user of the parameter is rewired and the run
\* does not return.
C13_MismatchIsFatal ==
  \A k \in Relocations :
    SameElementType(ShapeOf(hlo, log[k].add), ShapeOf(hlo, ParamOf(log[k])))

TypeFixes == {k \in DOMAIN log : log[k].kind = "typefixed"}

\* C14: TypeFixed.  After a run, for every index whose collective differed
\* from the Add in element type: one replacement collective exists in the
\* computation of the old one, with the old one's replica groups, layout
\* constraint, channel id and global-device-id policy; its element type and
\* the element type of its operand are the Add's; the old collective is not
\* in the graph and no instruction reads it; the root position is fed by the
\* replacement behind bridge nodes; and when the old collective had a channel
\* id exactly one collective of the computation carries it.
C14_TypeFixed ==
  pc = "done" =>
    \A k \in TypeFixes :
      LET e == log[k]
          old == hlo0.ins[e.ar]
          new == hlo.ins[e.new]
      IN /\ e.new \in Ids(hlo) \ Ids(hlo0)
         /\ new.op = "AllReduce" /\ new.comp = old.comp
         /\ new.rg = old.rg /\ new.constrain_layout = old.constrain_layout
         /\ new.chan = old.chan
         /\ new.use_global_device_ids = old.use_global_device_ids
         /\ new.ty = hlo.ins[e.add].ty /\ new.ty # old.ty
         /\ Len(new.opnds) = 1 /\ hlo.ins[new.opnds[1]].ty = new.ty
         /\ e.ar \notin Ids(hlo)
         /\ \A n \in Ids(hlo) : e.ar \notin Range(hlo.ins[n].opnds)
         /\ BehindBridges(hlo, hlo.ins[unit.bw_root].opnds[e.out + 1]) = e.new
         /\ Cardinality({n \in Ids(hlo) \ Ids(hlo0) :
               IsCollective(hlo, n) /\ hlo.ins[n].comp = old.comp
               /\ BehindBridges(hlo, hlo.ins[n].opnds[1]) = e.add}) = 1
         /\ old.chan # NoChan =>
              Cardinality({n \in Channelled(hlo) :
                 hlo.ins[n].comp = old.comp /\ hlo.ins[n].chan = old.chan}) = 1

C14_Witness ==
  /\ pc = "done" /\ Cardinality(TypeFixes) = 1
  /\ \E k \in TypeFixes :
       /\ hlo0.ins[log[k].ar].chan # NoChan
       /\ hlo0.ins[log[k].ar].constrain_layout
       /\ hlo0.ins[log[k].ar].dims # hlo0.ins[log[k].add].dims

\* C15: reaper ordering and precondition.  Within one run no instruction
\* leaves the graph before the loop over the index list has ended, and every
\* step of the removal loop takes out the next scheduled instruction, which
\* is in the graph and has no user at that moment.
C15_ReaperOrdering ==
  [][/\ Ids(hlo) \ Ids(hlo') # {} => pc = "reap" /\ j >= Len(out_idx)
     /\ (pc = "reap" /\ r < Len(to_remove)) =>
          LET n == to_remove[r + 1]
          IN /\ n \in Ids(hlo)
             /\ ComputedUsers(hlo, n) = {}
             /\ Ids(hlo') = Ids(hlo) \ {n}]_vars

C15_Witness ==
  /\ pc = "reap" /\ Len(to_remove) = 2 /\ r = 2
  /\ \A k \in DOMAIN to_remove : to_remove[k] \notin Ids(hlo)
  /\ \E k \in DOMAIN log : log[k].kind = "typefixed"

BridgeCalls == call.kind = "MaybeReshapeConvert"

\* The instructions a call added.
Added == Ids(hlo) \ Ids(call.before)

\* C16: shape bridge correctness.  For every source instruction and array
\* target shape MaybeReshapeConvert returns an instruction whose dimensions
\* and element type are the target's (the source itself, with no instruction
\* added, when its shape is the target already), and applied again to the
\* instruction returned, with the same target, it adds no instruction and
\* returns the same instruction.
C16_BridgeCorrect ==
  BridgeCalls =>
    /\ ShapeOf(hlo, call.r) = call.target
    /\ call.r2 = call.r /\ call.same2
    /\ ShapeOf(call.before, call.src) = call.target
         => call.r = call.src /\ hlo = call.before

C16_Witness ==
  /\ BridgeCalls
  /\ call.before.ins[call.src].dims # call.target.dims
  /\ call.before.ins[call.src].ty # call.target.ty
  /\ call.r \in Added

\* Reading a string of digits and '.' back: the number a sequence of digits
\* writes, and the numbers between the '.' of a string that starts at a '.'.
DigitValue(c) == CHOOSE n \in 0 .. 9 : Digit(n) = c

RECURSIVE NumberOf(_)
NumberOf(ds) ==
  IF Len(ds) = 1 THEN DigitValue(ds[1])
  ELSE 10 * NumberOf(SubSeq(ds, 1, Len(ds) - 1)) + DigitValue(ds[Len(ds)])

RECURSIVE FieldsOf(_, _, _)
FieldsOf(str, k, cur_field) ==
  IF k > Len(str) THEN <<>>
  ELSE IF str[k] = "."
    THEN <<NumberOf(cur_field)>> \o FieldsOf(str, k + 1, <<>>)
  ELSE FieldsOf(str, k + 1, Append(cur_field, str[k]))

\* The tagged collectives of a module, and how many of them have an id
\* below n.
Tagged(G, comp) ==
  {n \in Ids(G) : G.ins[n].comp = comp /\ G.ins[n].op = "AllReduce"
                  /\ G.ins[n].tag = kSkippableAllReduce}

RankIn(S, n) == Cardinality({m \in S : m < n}) + 1

QueryCalls == call.kind = "GetGradSyncChannelIds"

\* C17: the diagnostic query.  GetGradSyncChannelIds returns a string that
\* starts with '.', is '.' alone when the entry computation has no AllReduce
\* with the elidable tag, and otherwise holds, in the order of the
\* instructions, the channel id of each such AllReduce followed by '.', and
\* nothing else; after a single-unit rewrite of index i it holds the channel
\* id of the collective that feeds output i.
C17_QueryResult ==
  QueryCalls =>
    LET S == Tagged(hlo, call.module)
        str == call.str
        ids == FieldsOf(str, 2, <<>>)
    IN /\ call.ok
       /\ str[1] = "." /\ str[Len(str)] = "."
       /\ S = {} => str = <<".">>
       /\ Len(ids) = Cardinality(S)
       /\ \A n \in S : ids[RankIn(S, n)] = hlo.ins[n].chan
       /\ call.module = "bw" =>
            \A k \in RunMatches :
              \E f \in DOMAIN ids :
                ids[f] = hlo.ins[BehindBridges(hlo,
                           hlo.ins[unit.bw_root].opnds[log[k].out + 1])].chan

\* The same result for the modules whose tagged collectives all have a
\* channel id.
QueryResultWhenChannelled ==
  (QueryCalls /\ \A n \in Tagged(hlo, call.module) : hlo.ins[n].chan # NoChan)
    => LET S == Tagged(hlo, call.module)
           str == call.str
           ids == FieldsOf(str, 2, <<>>)
       IN /\ call.ok
          /\ str[1] = "." /\ str[Len(str)] = "."
          /\ S = {} => str = <<".">>
          /\ Len(ids) = Cardinality(S)
          /\ \A n \in S : ids[RankIn(S, n)] = hlo.ins[n].chan

MatcherCalls == call.kind = "GetAllReduce"

\* What the matcher finds from operand k of the instruction it was called on.
FoundFrom(k) ==
  GetAllReduce(call.before, call.before.ins[call.src].opnds[k])

\* C18: classification of the chain matcher.  GetAllReduce returns the
\* instruction it is called on when that is an AllReduce; what it finds from
\* operand 0 when it is a Convert, Reshape, Copy, Bitcast or Transpose; for a
\* Multiply the collective found on one side exactly when nothing is found
\* on the other, and nothing when both sides or neither side find one;
\* nothing for every other opcode; and the graph is as it was.
C18_MatcherClassification ==
  MatcherCalls =>
    LET op == call.before.ins[call.src].op
    IN /\ op = "AllReduce" => call.r = call.src
       /\ op \in {"Convert", "Reshape", "Copy", "Bitcast", "Transpose"}
            => call.r = FoundFrom(1)
       /\ op = "Multiply" =>
            /\ (FoundFrom(1) # nullptr /\ FoundFrom(2) = nullptr)
                 => call.r = FoundFrom(1)
            /\ (FoundFrom(1) = nullptr /\ FoundFrom(2) # nullptr)
                 => call.r = FoundFrom(2)
            /\ (FoundFrom(1) # nullptr /\ FoundFrom(2) # nullptr)
                 => call.r = nullptr
            /\ (FoundFrom(1) = nullptr /\ FoundFrom(2) = nullptr)
                 => call.r = nullptr
       /\ op \in {"Parameter", "Negate", "Add"} => call.r = nullptr
       /\ call.r # nullptr => call.before.ins[call.r].op = "AllReduce"
       /\ hlo = call.before

C18_Witness ==
  /\ MatcherCalls
  /\ call.before.ins[call.src].op = "Multiply"
  /\ FoundFrom(1) = nullptr /\ call.r # nullptr

\* A Multiply whose two sides both find a collective.
C18_BothSidesWitness ==
  /\ MatcherCalls
  /\ call.before.ins[call.src].op = "Multiply"
  /\ FoundFrom(1) # nullptr /\ FoundFrom(2) # nullptr /\ call.r = nullptr

\* C19: bridge, type-only mismatch.  When the source has the target's
\* dimensions and another element type, MaybeReshapeConvert adds exactly one
\* instruction, a Convert in the source's computation, and no Reshape.
C19_TypeOnlyOneConvert ==
  (/\ BridgeCalls
   /\ call.before.ins[call.src].dims = call.target.dims
   /\ call.before.ins[call.src].ty # call.target.ty)
    => /\ Cardinality(Added) = 1
       /\ \A n \in Added :
            /\ hlo.ins[n].op = "Convert"
            /\ hlo.ins[n].comp = call.before.ins[call.src].comp
            /\ hlo.ins[n].opnds = <<call.src>>

\* What the bridge does add in that case: a Convert of the source and a
\* Reshape of the Convert, which is returned.
TypeOnlyConvertAndReshape ==
  (/\ BridgeCalls
   /\ call.before.ins[call.src].dims = call.target.dims
   /\ call.before.ins[call.src].ty # call.target.ty)
    => /\ Cardinality(Added) = 2
       /\ hlo.ins[call.r].op = "Reshape"
       /\ hlo.ins[hlo.ins[call.r].opnds[1]].op = "Convert"
       /\ hlo.ins[hlo.ins[call.r].opnds[1]].opnds = <<call.src>>

\* C20: the relocated collective's shape.  The collective RunOnModuleGroup
\* creates in the apply-grad module has the shape of the collective it
\* replaces, and its only operand is the parameter at in_index bridged to
\* that shape: the parameter itself when the shapes agree, a bridge over the
\* parameter when they differ.
C20_RelocatedShape ==
  (mode = "group" /\ pc = "done") =>
    \A k \in Relocations :
      LET e == log[k]
          param == unit.params[e.in + 1]
          old_shape == ShapeOf(hlo0, e.ar)
          opnd == hlo.ins[e.new].opnds[1]
      IN /\ ShapeOf(hlo, e.new) = old_shape
         /\ Len(hlo.ins[e.new].opnds) = 1
         /\ BehindBridges(hlo, opnd) = param
         /\ ShapeOf(hlo, opnd) = old_shape
         /\ ShapeOf(hlo, param) # old_shape => opnd # param

\* The shape it is created with: the parameter's, so that the parameter
\* itself is the operand.
RelocatedHasParameterShape ==
  (mode = "group" /\ pc = "done") =>
    \A k \in Relocations :
      /\ ShapeOf(hlo, log[k].new) = ShapeOf(hlo, unit.params[log[k].in + 1])
      /\ hlo.ins[log[k].new].opnds = <<unit.params[log[k].in + 1]>>

\* C21: channel-id presence is preserved by relocation.  The relocated
\* collective has a channel id exactly when the collective it replaces had
\* one; a relocation of a collective without channel id leaves the
\* allocation counter where it was (the counter has advanced by the number
\* of relocations that were given an id); and the relocated collective never
\* carries the channel id of the collective it replaces.
C21_ChannelIdPresence ==
  (mode = "group" /\ toggle /\ pc \notin {"start", "fatal"}) =>
    /\ next_channel_id = NextChannelId(hlo0, "ag") + Cardinality(Allocations)
    /\ \A k \in Relocations :
         /\ hlo.ins[log[k].new].chan # NoChan <=> hlo0.ins[log[k].ar].chan # NoChan
         /\ hlo.ins[log[k].new].chan # NoChan
              => hlo.ins[log[k].new].chan # hlo0.ins[log[k].ar].chan

\* Presence and the counter alone.
ChannelIdPresenceKept ==
  (mode = "group" /\ toggle /\ pc \notin {"start", "fatal"}) =>
    /\ next_channel_id = NextChannelId(hlo0, "ag") + Cardinality(Allocations)
    /\ \A k \in Relocations :
         hlo.ins[log[k].new].chan # NoChan <=> hlo0.ins[log[k].ar].chan # NoChan

\* With the counter started above the ids of both modules the relocated
\* collective has another id than the one it replaces.
FreshWhenAboveProducer ==
  (mode = "group" /\ toggle /\ pc \notin {"start", "fatal"}
     /\ NextChannelId(hlo0, "ag") >= NextChannelId(hlo0, "bw")) =>
    \A k \in Allocations :
      hlo.ins[log[k].new].chan # hlo0.ins[log[k].ar].chan

\* The pairings with an apply-grad parameter whose collective was matched
\* and moved.
RelocationPairings ==
  {k \in DOMAIN log : /\ mode = "group" /\ log[k].in # 0 - 1
                      /\ log[k].kind \in Reinserted \cup {"relocated"}}

\* The collectives of the backward module that read n, directly or through
\* bridge nodes.
CollectivesOver(G, n) ==
  {c \in Ids(G) : /\ G.ins[c].comp = "bw" /\ IsCollective(G, c)
                  /\ \E i \in Positions(G, c) :
                       BehindBridges(G, G.ins[c].opnds[i + 1]) = n}

\* C22: relocation does not reinsert in the backward module.  After
\* RunOnModuleGroup has returned, for every pairing with an apply-grad
\* parameter whose collective was matched: the root operand at out_index is
\* the Add it was, no collective of the backward module reads that Add, the
\* matched collective is gone, and the collectives of the backward module
\* with the elidable tag are those of the sentinel pairings only.
C22_NoReinsertion ==
  (mode = "group" /\ pc = "done") =>
    /\ \A k \in RelocationPairings :
         /\ log[k].kind = "relocated"
         /\ hlo.ins[unit.bw_root].opnds[log[k].out + 1] = log[k].add
         /\ hlo.ins[log[k].add].op = "Add"
         /\ CollectivesOver(hlo, log[k].add) = {}
         /\ log[k].ar \notin Ids(hlo)
    /\ Cardinality(Tagged(hlo, "bw"))
         <= Cardinality({k \in DOMAIN log : log[k].in = 0 - 1
                                            /\ log[k].kind \in Reinserted})

C22_Witness ==
  /\ mode = "group" /\ pc = "done"
  /\ \E k \in RelocationPairings :
       /\ log[k].kind = "relocated"
       /\ hlo0.ins[log[k].ar].opnds # hlo0.ins[log[k].add].opnds
  /\ \E k \in DOMAIN log : log[k].in = 0 - 1 /\ log[k].kind \in Reinserted

\* What an instruction created by the rewrite declares about its operand: a
\* Convert keeps the dimensions, a Reshape the element type, an AllReduce
\* the whole shape.
DeclaredFor(G, n, s) ==
  CASE G.ins[n].op = "Convert" -> s.dims = G.ins[n].dims
    [] G.ins[n].op = "Reshape" -> s.ty = G.ins[n].ty
    [] G.ins[n].op = "AllReduce" -> s = ShapeOf(G, n)
    [] OTHER -> FALSE

\* The operand edge (n, i) is as it was before the run, or as the new
\* instruction n declares.
EdgeCompatible(n, i) ==
  IF n \in Ids(hlo0)
    THEN /\ i < Len(hlo0.ins[n].opnds)
         /\ ShapeOf(hlo, hlo.ins[n].opnds[i + 1])
              = ShapeOf(hlo0, hlo0.ins[n].opnds[i + 1])
    ELSE DeclaredFor(hlo, n, ShapeOf(hlo, hlo.ins[n].opnds[i + 1]))

BetweenIndices == pc \in {"loop", "reap", "done"}

\* C23: edge compatibility.  After the rewrite of each index, in both runs
\* and both modules, the shape on every operand edge is the shape that
\* operand position had before the run, or the shape the instruction
\* created by the rewrite declares for its operand.
C23_EdgeCompatibility ==
  BetweenIndices =>
    \A n \in Ids(hlo) : \A i \in Positions(hlo, n) :
      /\ hlo.ins[n].opnds[i + 1] \in Ids(hlo)
      /\ EdgeCompatible(n, i)

\* A type fix and a relocation over a type-changing chain have both bridged.
C23_Witness ==
  /\ pc = "done"
  /\ \E k \in DOMAIN log :
       /\ log[k].kind \in {"typefixed", "relocated"}
       /\ hlo0.ins[log[k].ar].ty # hlo0.ins[log[k].add].ty
  /\ \E n \in Ids(hlo) \ Ids(hlo0) : hlo.ins[n].op = "Convert"

TupleCalls == call.kind = "MaybeReshapeConvertTuple"

\* The shapes a target asks for, one per operand.
Subshapes(target) == IF IsTuple(target) THEN target.elems ELSE <<target>>

\* C24: bridge over a tuple target.  MaybeReshapeConvertTuple returns, for
\* every k, operand k bridged to the k-th subshape of the target (to the
\* target itself when it is an array); when the number of operands is not
\* the number of subshapes it fails fatally, returns no list and adds
\* nothing.
C24_TupleBridge ==
  TupleCalls =>
    IF Len(call.srcs) = Len(Subshapes(call.target))
      THEN /\ call.ok /\ pc = "called"
           /\ Len(call.rs) = Len(call.srcs)
           /\ \A k \in DOMAIN call.srcs :
                /\ ShapeOf(hlo, call.rs[k]) = Subshapes(call.target)[k]
                /\ BehindBridges(hlo, call.rs[k]) = call.srcs[k]
      ELSE /\ ~call.ok /\ pc = "fatal"
           /\ call.rs = <<>> /\ hlo = hlo0

C24_Witness ==
  /\ TupleCalls /\ call.ok /\ IsTuple(call.target)
  /\ Len(call.srcs) = 2
  /\ \A k \in DOMAIN call.srcs : call.rs[k] # call.srcs[k]

\* The arity differs and the call has failed.
C24_FatalWitness ==
  /\ TupleCalls /\ ~call.ok /\ IsTuple(call.target)
  /\ Len(call.srcs) > Len(call.target.elems) /\ Len(call.target.elems) > 0

\* The instructions S reaches by following operands.
RECURSIVE OperandClosure(_, _)
OperandClosure(G, S) ==
  With(S \cup UNION {Range(G.ins[n].opnds) \cap Ids(G) : n \in S}, LAMBDA T :
    IF T = S THEN S ELSE OperandClosure(G, T))

TransitiveOperands(G, n) == OperandClosure(G, Range(G.ins[n].opnds) \cap Ids(G))

Acyclic(G) == \A n \in Ids(G) : n \notin TransitiveOperands(G, n)

ComputedFrom(G, n) == OperandClosure(G, {n})

DependsOnCollective(G, n) == \E c \in ComputedFrom(G, n) : IsCollective(G, c)

\* The entries of the history whose collective was moved, in either rewrite.
Moved == {k \in DOMAIN log : log[k].kind \in Reinserted \cup {"relocated"}}

\* C26: other consumers keep their collective.  After a run, for every
\* index whose collective was moved, every other root operand of the
\* backward module that was computed from that collective before the run is
\* still computed from a collective.
C26_OtherConsumersKeepCollective ==
  (pc = "done" /\ run = 1) =>
    \A k \in Moved :
      \A q \in Positions(hlo0, unit.bw_root) :
        (/\ q # log[k].out
         /\ log[k].ar \in ComputedFrom(hlo0, hlo0.ins[unit.bw_root].opnds[q + 1]))
          => DependsOnCollective(hlo, hlo.ins[unit.bw_root].opnds[q + 1])

\* The same when the collective reaches the other root operands only through
\* its one user being their one user too: no instruction between the
\* collective and the Add is read by anything else.
ChainUnshared(k) ==
  \A n \in ComputedFrom(hlo0, log[k].add) \ {log[k].add} :
    log[k].ar \in ComputedFrom(hlo0, n) =>
      hlo0.usr[n] \subseteq ComputedFrom(hlo0, log[k].add)

OtherConsumersKeptWhenUnshared ==
  (pc = "done" /\ run = 1) =>
    \A k \in Moved :
      ChainUnshared(k) =>
        \A q \in Positions(hlo0, unit.bw_root) :
          (/\ q # log[k].out
           /\ hlo0.ins[unit.bw_root].opnds[q + 1] # log[k].add
           /\ log[k].ar \in ComputedFrom(hlo0,
                              hlo0.ins[unit.bw_root].opnds[q + 1]))
            => DependsOnCollective(hlo, hlo.ins[unit.bw_root].opnds[q + 1])

\* The value of instruction n written as a term: the instruction with its
\* operands replaced by their terms.  Two graphs with the same term at the
\* root differ in the names of their instructions and in dead code only.
RECURSIVE Term(_, _)
Term(G, n) ==
  [G.ins[n] EXCEPT !.opnds = [k \in DOMAIN G.ins[n].opnds |->
                                Term(G, G.ins[n].opnds[k])]]

Reverse(s) == [k \in DOMAIN s |-> s[Len(s) + 1 - k]]

\* The list without the later occurrences of an index.
RECURSIVE Once(_)
Once(s) ==
  IF s = <<>> THEN <<>>
  ELSE With(Once(SubSeq(s, 1, Len(s) - 1)), LAMBDA t :
         IF s[Len(s)] \in Range(t) THEN t ELSE Append(t, s[Len(s)]))

RunOf(idx) == Term(Run_Whole(hlo0, unit.bw_root, idx, toggle), unit.bw_root)

\* C27: index independence of GradAccRewrite::Run.  The module a run
\* returns is the module the run returns on the index list in the opposite
\* order, and on the list with each index listed once.
C27_IndexIndependence ==
  (mode = "single" /\ pc = "done" /\ run = 1) =>
    /\ Term(hlo, unit.bw_root) = RunOf(Reverse(out_idx))
    /\ Term(hlo, unit.bw_root) = RunOf(Once(out_idx))

\* Listing an index twice is listing it once.
TwiceIsOnce ==
  (mode = "single" /\ pc = "done" /\ run = 1) =>
    Term(hlo, unit.bw_root) = RunOf(Once(out_idx))

\* The order does not matter when the two outputs share no instruction
\* computed from a collective.
SharedReduced(G) ==
  \E n \in Ids(G) :
    /\ DependsOnCollective(G, n)
    /\ \A q \in Positions(G, unit.bw_root) :
         n \in ComputedFrom(G, G.ins[unit.bw_root].opnds[q + 1])

OrderFreeWhenUnshared ==
  (mode = "single" /\ pc = "done" /\ run = 1 /\ ~SharedReduced(hlo0)) =>
    Term(hlo, unit.bw_root) = RunOf(Reverse(out_idx))

\* The bridge nodes from n down to the first instruction that is none.
RECURSIVE BridgesFrom(_, _)
BridgesFrom(G, n) ==
  IF IsBridge(G, n) THEN {n} \cup BridgesFrom(G, G.ins[n].opnds[1]) ELSE {}

\* C28: the type fix keeps the accumulation precision.  After a run, for
\* every index with a type fix, no instruction between the Add and the
\* replacement collective, and none between the replacement collective and
\* the root operand, has the old collective's element type.
C28_PrecisionKept ==
  pc = "done" =>
    \A k \in TypeFixes :
      \A n \in BridgesFrom(hlo, hlo.ins[log[k].new].opnds[1])
                 \cup BridgesFrom(hlo,
                        hlo.ins[unit.bw_root].opnds[log[k].out + 1]) :
        hlo.ins[n].ty # hlo0.ins[log[k].ar].ty

\* What the type fix leaves: an instruction of the old element type on the
\* way into the replacement collective and one on the way out of it.
TypeFixGoesThroughOldType ==
  pc = "done" =>
    \A k \in TypeFixes :
      /\ \E n \in BridgesFrom(hlo, hlo.ins[log[k].new].opnds[1]) :
           hlo.ins[n].ty = hlo0.ins[log[k].ar].ty
      /\ \E n \in BridgesFrom(hlo,
                    hlo.ins[unit.bw_root].opnds[log[k].out + 1]) :
           hlo.ins[n].ty = hlo0.ins[log[k].ar].ty

\* C29: the diagnostic query is defined on every module a run returns.
\* After a run every collective with the elidable tag has a channel id, and
\* GetGradSyncChannelIds returns on the modules of the run.
C29_QueryDefined ==
  /\ pc = "done" =>
       \A n \in Tagged(hlo, "bw") \cup Tagged(hlo, "ag") :
         hlo.ins[n].chan # NoChan
  /\ QueryCalls => call.ok

\* A matched collective without channel id is tagged by the run.
TaggedAsMatched ==
  pc = "done" =>
    \A k \in DOMAIN log :
      (log[k].kind = "rewritten" /\ log[k].in = 0 - 1) =>
        hlo.ins[log[k].ar].tag = kSkippableAllReduce

Ended == pc \in {"done", "fatal"}

\* C30: termination.  Every invocation, of either rewrite, on every graph
\* and every index list or pairing list, comes to its end or to a fatal
\* failure; and when it has come to its end with the toggle on, every entry
\* of the list has been processed and the removal loop has run over all that
\* was scheduled.
C30_Termination ==
  /\ (pc = "start") ~> Ended
  /\ [](pc = "done" /\ toggle => j = Len(out_idx) /\ r = Len(to_remove))

\* A run over a list of MaxLen entries has ended after a removal.
C30_Witness ==
  /\ pc = "done" /\ Len(out_idx) = MaxLen /\ j = MaxLen
  /\ to_remove # <<>> /\ r = Len(to_remove)

====
